---- MODULE Spec2Model ----
(***************************************************************************)
(* Model of src/app/app.py: the startup connectivity probe, the process    *)
(* bootstrap, and the ChatBot handlers chat / stop_generation / clear_chat *)
(* with generate_ai_response, over the shared chat_history and stop_flag.  *)
(*                                                                         *)
(* Text constants are written as ASCII stand-ins for the literals of the   *)
(* source (which contain emoji and Cyrillic text); distinct literals have  *)
(* distinct stand-ins.                                                     *)
(***************************************************************************)
EXTENDS Integers, Sequences, FiniteSets, TLC

(***************************************************************************)
(* Bounds of the model.                                                    *)
(***************************************************************************)
\* worker threads of the UI framework that may run a chat handler
NumThreads == 2
\* the Conversation is explored up to 1 + 2 * MaxChats Turns
MaxChats == 2
\* largest maxAttempts given to the probe when it is checked on its own
MaxRetries == 4
\* largest delay given to the probe when it is checked on its own
MaxDelay == 2

(***************************************************************************)
(* Program constants.                                                      *)
(***************************************************************************)
\* app.py:27  def test_ollama_connection(retries=3, delay=3)
DefaultRetries == 3
DefaultDelay == 3
\* app.py:41  exit(1)
ExitFailure == 1
\* app.py:21
OLLAMA_API == "http://ollama:11434"
\* app.py:51  temperature=0.3
Temperature == "0.3"
\* app.py:55-56
SYSTEM_TEMPLATE == "You are an expert AI coding assistant."
\* app.py:65, 118
GREETING == "Hi! I'm DeepSeek. How can I help you code today?"
\* app.py:72
STOPPED_SENTINEL == "warning: stopped by user"
\* app.py:79
NO_ANSWER_SENTINEL == "error: the model returned no answer"
\* app.py:82
ERROR_SENTINEL == "error: request processing failed"

\* app.py:15  the message classes, as role-tagged Turns
SystemMessage(c) == [role |-> "system", content |-> c]
HumanMessage(c) == [role |-> "human", content |-> c]
AIMessage(c) == [role |-> "ai", content |-> c]

\* app.py:65  the Conversation a ChatBot is constructed with
Seed == <<AIMessage(GREETING)>>

Threads == 1..NumThreads

\* texts a user may submit; "" is the falsy message
Messages == {"", "m1", "m2"}
\* app.py:147  model identifiers, two of the choices of the dropdown
Models == {"deepseek-r1:1.5b", "deepseek-r1:7b"}
\* what chain.invoke may do: raise, return an empty text, return a text
BackendOutcomes ==
    { [raised |-> TRUE, text |-> ""],
      [raised |-> FALSE, text |-> ""],
      [raised |-> FALSE, text |-> "r1"] }
\* a display mirror that does not stem from this ChatBot's Conversation
ForeignMirror == << <<"m2", "r1">> >>

VARIABLES
    main_pc,        \* position of the module-level script (app.py:40-44, 177-179)
    exit_code,      \* status the process exited with, -1 while it runs
    p_pc,           \* position inside test_ollama_connection
    retries,        \* its parameter retries
    delay,          \* its parameter delay
    i,              \* its loop variable
    p_ret,          \* its return value
    checks,         \* outcomes of the health checks of the current invocation
    slept,          \* seconds slept by the current invocation
    probe_results,  \* return values of the invocations made by the script
    chat_history,   \* ChatBot.chat_history
    stop_flag,      \* the module-level threading.Event
    clear_ret,      \* what the last clear_chat returned, <<>> before any
    last_call,      \* the handler invoked most recently (chat: by a traced call)
    cleared_len,    \* length of chat_history when it was last cleared, 0 if never
    exchanges,      \* (message, reply, position of the Human Turn, position of
                    \* the Assistant Turn) of the completed exchanges that were
                    \* started since construction or the last clear
    last_mirror,    \* the mirror the caller holds from the previous chat or clear
    frame           \* per thread: position and locals of its chat call

vars == << main_pc, exit_code, p_pc, retries, delay, i, p_ret, checks, slept,
           probe_results, chat_history, stop_flag, clear_ret, last_call,
           cleared_len, exchanges, last_mirror, frame >>

probeVars == << p_pc, retries, delay, i, p_ret, checks, slept >>
botVars == << chat_history, stop_flag, clear_ret, last_call, cleared_len,
              exchanges, last_mirror, frame >>

\* app.py:47-52
NoEngine == [model |-> "", base_url |-> "", temperature |-> ""]
get_llm_engine(model_name) ==
    [model |-> model_name, base_url |-> OLLAMA_API, temperature |-> Temperature]

\* locals of a thread that runs no chat call
IdleFrame ==
    [ pc |-> "idle", message |-> "", model_choice |-> "", history |-> <<>>,
      llm_engine |-> NoEngine, response |-> "", ret |-> <<>>,
      request |-> <<>>, invoked |-> 0, outcome |-> "none",
      h0 |-> <<>>, flag0 |-> FALSE, hist0 |-> <<>>, prev |-> "none",
      hpos |-> 0, apos |-> 0, stop_seen |-> FALSE, cleared_at |-> "none",
      traced |-> FALSE ]

(***************************************************************************)
(* test_ollama_connection, app.py:27-38                                    *)
(***************************************************************************)
\* app.py:28  for i in range(retries); app.py:37-38 once the range is exhausted
ProbeLoop ==
    /\ p_pc = "loop"
    /\ IF i < retries
         THEN /\ p_pc' = "get"
              /\ UNCHANGED p_ret
         ELSE /\ p_pc' = "done"
              /\ p_ret' = FALSE
    /\ UNCHANGED << retries, delay, i, checks, slept >>
    /\ UNCHANGED << main_pc, exit_code, probe_results >>
    /\ UNCHANGED botVars

\* variant of ProbeGet: a successful check does not return, the loop goes on
ProbeGet_noReturn ==
    /\ p_pc = "get"
    /\ \E ok \in BOOLEAN :
         /\ checks' = Append(checks, ok)
         /\ p_pc' = "sleep"
         /\ UNCHANGED p_ret
    /\ UNCHANGED << retries, delay, i, slept >>
    /\ UNCHANGED << main_pc, exit_code, probe_results >>
    /\ UNCHANGED botVars

\* app.py:29-35  one health check: return True, or the RequestException is caught
ProbeGet ==
    /\ p_pc = "get"
    /\ \E ok \in BOOLEAN :
         /\ checks' = Append(checks, ok)
         /\ IF ok
              THEN /\ p_pc' = "done"
                   /\ p_ret' = TRUE
              ELSE /\ p_pc' = "sleep"
                   /\ UNCHANGED p_ret
    /\ UNCHANGED << retries, delay, i, slept >>
    /\ UNCHANGED << main_pc, exit_code, probe_results >>
    /\ UNCHANGED botVars

\* app.py:36  time.sleep(delay), then the next iteration
ProbeSleep ==
    /\ p_pc = "sleep"
    /\ slept' = slept + delay
    /\ i' = i + 1
    /\ p_pc' = "loop"
    /\ UNCHANGED << retries, delay, p_ret, checks >>
    /\ UNCHANGED << main_pc, exit_code, probe_results >>
    /\ UNCHANGED botVars

\* entry of test_ollama_connection(r, d)
ProbeEntry(r, d) ==
    /\ p_pc' = "loop"
    /\ retries' = r
    /\ delay' = d
    /\ i' = 0
    /\ p_ret' = FALSE
    /\ checks' = <<>>
    /\ slept' = 0

\* test_ollama_connection has returned to the script: its locals are gone
ProbeExit ==
    /\ p_pc' = "idle"
    /\ retries' = 0
    /\ delay' = 0
    /\ i' = 0
    /\ p_ret' = FALSE
    /\ checks' = <<>>
    /\ slept' = 0

(***************************************************************************)
(* The module-level script, app.py:40-44 and 177-179                       *)
(***************************************************************************)
\* app.py:40  the call in "if not test_ollama_connection():"
StartupProbe1 ==
    /\ main_pc = "l40"
    /\ p_pc = "idle"
    /\ ProbeEntry(DefaultRetries, DefaultDelay)
    /\ UNCHANGED << main_pc, exit_code, probe_results >>
    /\ UNCHANGED botVars

\* app.py:40-41  the test of the result, and exit(1)
StartupCheck1 ==
    /\ main_pc = "l40"
    /\ p_pc = "done"
    /\ probe_results' = Append(probe_results, p_ret)
    /\ IF ~p_ret
         THEN /\ main_pc' = "exited"
              /\ exit_code' = ExitFailure
         ELSE /\ main_pc' = "l44"
              /\ UNCHANGED exit_code
    /\ ProbeExit
    /\ UNCHANGED botVars

\* app.py:44  the second call, test_ollama_connection()
StartupProbe2 ==
    /\ main_pc = "l44"
    /\ p_pc = "idle"
    /\ ProbeEntry(DefaultRetries, DefaultDelay)
    /\ UNCHANGED << main_pc, exit_code, probe_results >>
    /\ UNCHANGED botVars

\* app.py:44  the second call returns; its value is an expression statement
StartupAfter2 ==
    /\ main_pc = "l44"
    /\ p_pc = "done"
    /\ probe_results' = Append(probe_results, p_ret)
    /\ main_pc' = "l178"
    /\ ProbeExit
    /\ UNCHANGED exit_code
    /\ UNCHANGED botVars

\* app.py:178, 123-124, 64-65  create_demo() constructs the ChatBot
CreateDemo ==
    /\ main_pc = "l178"
    /\ chat_history' = Seed
    /\ main_pc' = "l179"
    /\ UNCHANGED << exit_code, probe_results >>
    /\ UNCHANGED probeVars
    /\ UNCHANGED << stop_flag, clear_ret, last_call, cleared_len, exchanges,
                    last_mirror, frame >>

\* app.py:179  demo.launch(...): the UI is served from here on
Launch ==
    /\ main_pc = "l179"
    /\ main_pc' = "serving"
    /\ UNCHANGED << exit_code, probe_results >>
    /\ UNCHANGED probeVars
    /\ UNCHANGED botVars

Serving == main_pc = "serving"

(***************************************************************************)
(* ChatBot, app.py:63-120                                                  *)
(***************************************************************************)
\* no chat call is in flight
Quiescent == \A u \in Threads : frame[u].pc = "idle"

\* the Conversation still has room, within MaxChats, for one more exchange
HasRoom ==
    Len(chat_history) + 2 * Cardinality({u \in Threads : frame[u].pc # "idle"}) + 2
        <= 1 + 2 * MaxChats

\* mirrors a caller may pass to chat
MirrorInputs == {<<>>, last_mirror, ForeignMirror}

\* variant of Falsy: the early return on a falsy message is missing
Falsy_never(msg) == FALSE

\* app.py:91  "not message"
Falsy(msg) == msg = ""

\* variant of EmptyReturn: an empty message hands back an empty mirror
EmptyReturn_reset(h) == <<"", <<>>, <<>>>>

\* app.py:92  return "", history, history
EmptyReturn(h) == <<"", h, h>>

\* app.py:58-62  the request chat_prompt renders: the system Turn, the
\* chat_history placeholder, the human Turn of {input}
chat_prompt(input, hist) ==
    <<SystemMessage(SYSTEM_TEMPLATE)>> \o hist \o <<HumanMessage(input)>>

\* variant of OrNoAnswer: the "or" fallback is missing
OrNoAnswer_identity(text) == text

\* app.py:79  chain.invoke(...) or "<no answer>"
OrNoAnswer(text) == IF text = "" THEN NO_ANSWER_SENTINEL ELSE text

\* variant of InvokeResponse: the except branch substitutes the wrong text
InvokeResponse_wrongText(out) ==
    IF out.raised THEN NO_ANSWER_SENTINEL ELSE OrNoAnswer(out.text)

\* app.py:77-82  the response of the try statement for a backend outcome
InvokeResponse(out) ==
    IF out.raised THEN ERROR_SENTINEL ELSE OrNoAnswer(out.text)

\* variant of AppendPair: the pair is appended as (reply, message)
AppendPair_swapped(h, msg, reply) == Append(h, <<reply, msg>>)

\* app.py:105  history.append((message, ai_response))
AppendPair(h, msg, reply) == Append(h, <<msg, reply>>)

\* app.py:107  return "", history, history
ChatResult(h) == <<"", h, h>>

\* app.py:89-99  chat is entered: the early return on a falsy message, else
\* the engine is built and generate_ai_response is called.  A traced call
\* also records what it was called with and in (h0, flag0, hist0, prev) and
\* the request it sends, for the properties of a single call.
ChatCallWith(t, msgs, models, mirrors, traced) ==
    /\ Serving
    /\ frame[t].pc = "idle"
    /\ \E msg \in msgs, mc \in models, h \in mirrors :
         /\ Falsy(msg) \/ HasRoom
         /\ frame' = [frame EXCEPT ![t] =
              IF Falsy(msg)
                THEN [IdleFrame EXCEPT
                        !.pc = "done", !.message = msg, !.model_choice = mc,
                        !.history = h, !.ret = EmptyReturn(h),
                        !.traced = traced,
                        !.h0 = IF traced THEN chat_history ELSE <<>>,
                        !.flag0 = traced /\ stop_flag,
                        !.hist0 = IF traced THEN h ELSE <<>>,
                        !.prev = IF traced THEN last_call ELSE "none"]
                ELSE [IdleFrame EXCEPT
                        !.pc = "gen_clear", !.message = msg, !.model_choice = mc,
                        !.history = h, !.llm_engine = get_llm_engine(mc),
                        !.traced = traced,
                        !.h0 = IF traced THEN chat_history ELSE <<>>,
                        !.flag0 = traced /\ stop_flag,
                        !.hist0 = IF traced THEN h ELSE <<>>,
                        !.prev = IF traced THEN last_call ELSE "none"]]
    /\ last_call' = IF traced THEN "chat" ELSE last_call
    /\ UNCHANGED << chat_history, stop_flag, clear_ret, cleared_len, exchanges,
                    last_mirror >>
    /\ UNCHANGED << main_pc, exit_code, probe_results >>
    /\ UNCHANGED probeVars

\* chat called with any message, model and mirror
ChatCall(t) == ChatCallWith(t, Messages, Models, MirrorInputs, TRUE)

\* variant of GenClear: the flag is not cleared before it is checked
GenClear_keep(t) ==
    /\ frame[t].pc = "gen_clear"
    /\ frame' = [frame EXCEPT ![t].pc = "gen_check"]
    /\ UNCHANGED << chat_history, stop_flag, clear_ret, last_call, cleared_len,
                    exchanges, last_mirror >>
    /\ UNCHANGED << main_pc, exit_code, probe_results >>
    /\ UNCHANGED probeVars

\* app.py:68  stop_flag.clear()
GenClear(t) ==
    /\ frame[t].pc = "gen_clear"
    /\ stop_flag' = FALSE
    /\ frame' = [frame EXCEPT ![t].pc = "gen_check"]
    /\ UNCHANGED << chat_history, clear_ret, last_call, cleared_len, exchanges,
                    last_mirror >>
    /\ UNCHANGED << main_pc, exit_code, probe_results >>
    /\ UNCHANGED probeVars

\* variant of GenCheck: the test of the flag is inverted
GenCheck_inverted(t) ==
    /\ frame[t].pc = "gen_check"
    /\ frame' = [frame EXCEPT ![t] =
         IF ~stop_flag
           THEN [@ EXCEPT !.response = STOPPED_SENTINEL, !.outcome = "stopped",
                          !.pc = "append_pair"]
           ELSE [@ EXCEPT !.pc = "gen_human"]]
    /\ UNCHANGED << chat_history, stop_flag, clear_ret, last_call, cleared_len,
                    exchanges, last_mirror >>
    /\ UNCHANGED << main_pc, exit_code, probe_results >>
    /\ UNCHANGED probeVars

\* app.py:70-72  if stop_flag.is_set(): return the "stopped" text
GenCheck(t) ==
    /\ frame[t].pc = "gen_check"
    /\ frame' = [frame EXCEPT ![t] =
         IF stop_flag
           THEN [@ EXCEPT !.response = STOPPED_SENTINEL, !.outcome = "stopped",
                          !.pc = "append_pair"]
           ELSE [@ EXCEPT !.pc = "gen_human"]]
    /\ UNCHANGED << chat_history, stop_flag, clear_ret, last_call, cleared_len,
                    exchanges, last_mirror >>
    /\ UNCHANGED << main_pc, exit_code, probe_results >>
    /\ UNCHANGED probeVars

\* variant of GenAppendHuman: the Turn is inserted at the front
GenAppendHuman_front(t) ==
    /\ frame[t].pc = "gen_human"
    /\ chat_history' = <<HumanMessage(frame[t].message)>> \o chat_history
    /\ frame' = [frame EXCEPT ![t] =
         [@ EXCEPT !.hpos = Len(chat_history) + 1, !.pc = "gen_invoke"]]
    /\ UNCHANGED << stop_flag, clear_ret, last_call, cleared_len, exchanges,
                    last_mirror >>
    /\ UNCHANGED << main_pc, exit_code, probe_results >>
    /\ UNCHANGED probeVars

\* app.py:75  self.chat_history.append(HumanMessage(content=user_input))
GenAppendHuman(t) ==
    /\ frame[t].pc = "gen_human"
    /\ chat_history' = Append(chat_history, HumanMessage(frame[t].message))
    /\ frame' = [frame EXCEPT ![t] =
         [@ EXCEPT !.hpos = Len(chat_history) + 1, !.pc = "gen_invoke"]]
    /\ UNCHANGED << stop_flag, clear_ret, last_call, cleared_len, exchanges,
                    last_mirror >>
    /\ UNCHANGED << main_pc, exit_code, probe_results >>
    /\ UNCHANGED probeVars

\* variant of GenInvoke: an invocation that raised is made a second time
GenInvoke_retry(t) ==
    /\ frame[t].pc = "gen_invoke"
    /\ \E out \in BackendOutcomes :
         frame' = [frame EXCEPT ![t] =
           [@ EXCEPT !.request = IF frame[t].traced
                                   THEN chat_prompt(frame[t].message, chat_history)
                                   ELSE <<>>,
                     !.invoked = IF out.raised THEN @ + 2 ELSE @ + 1,
                     !.outcome = IF out.raised THEN "raised"
                                 ELSE IF out.text = "" THEN "empty" ELSE "text",
                     !.response = InvokeResponse(out),
                     !.pc = "gen_ai"]]
    /\ UNCHANGED << chat_history, stop_flag, clear_ret, last_call, cleared_len,
                    exchanges, last_mirror >>
    /\ UNCHANGED << main_pc, exit_code, probe_results >>
    /\ UNCHANGED probeVars

\* variant of GenInvoke: a raised failure is not caught and ends the call
GenInvoke_propagate(t) ==
    /\ frame[t].pc = "gen_invoke"
    /\ \E out \in BackendOutcomes :
         frame' = [frame EXCEPT ![t] =
           [@ EXCEPT !.invoked = @ + 1,
                     !.outcome = IF out.raised THEN "raised"
                                 ELSE IF out.text = "" THEN "empty" ELSE "text",
                     !.response = IF out.raised THEN "" ELSE OrNoAnswer(out.text),
                     !.pc = IF out.raised THEN "raised" ELSE "gen_ai"]]
    /\ UNCHANGED << chat_history, stop_flag, clear_ret, last_call, cleared_len,
                    exchanges, last_mirror >>
    /\ UNCHANGED << main_pc, exit_code, probe_results >>
    /\ UNCHANGED probeVars

\* app.py:77-82  the chain is invoked with input and self.chat_history; the
\* backend answers, answers with nothing, or raises
GenInvoke(t) ==
    /\ frame[t].pc = "gen_invoke"
    /\ \E out \in BackendOutcomes :
         frame' = [frame EXCEPT ![t] =
           [@ EXCEPT !.request = IF frame[t].traced
                                   THEN chat_prompt(frame[t].message, chat_history)
                                   ELSE <<>>,
                     !.invoked = @ + 1,
                     !.outcome = IF out.raised THEN "raised"
                                 ELSE IF out.text = "" THEN "empty" ELSE "text",
                     !.response = InvokeResponse(out),
                     !.pc = "gen_ai"]]
    /\ UNCHANGED << chat_history, stop_flag, clear_ret, last_call, cleared_len,
                    exchanges, last_mirror >>
    /\ UNCHANGED << main_pc, exit_code, probe_results >>
    /\ UNCHANGED probeVars

\* variant of GenAppendAI: a failed exchange records no Assistant Turn
GenAppendAI_skipFailed(t) ==
    /\ frame[t].pc = "gen_ai"
    /\ chat_history' = IF frame[t].outcome = "raised" THEN chat_history
                       ELSE Append(chat_history, AIMessage(frame[t].response))
    /\ frame' = [frame EXCEPT ![t] =
         [@ EXCEPT !.apos = Len(chat_history) + 1, !.pc = "append_pair"]]
    /\ UNCHANGED << stop_flag, clear_ret, last_call, cleared_len, exchanges,
                    last_mirror >>
    /\ UNCHANGED << main_pc, exit_code, probe_results >>
    /\ UNCHANGED probeVars

\* variant of GenAppendAI: the reply overwrites the last Turn
GenAppendAI_overwrite(t) ==
    /\ frame[t].pc = "gen_ai"
    /\ chat_history' = [chat_history EXCEPT ![Len(chat_history)] =
                          AIMessage(frame[t].response)]
    /\ frame' = [frame EXCEPT ![t] =
         [@ EXCEPT !.apos = Len(chat_history), !.pc = "append_pair"]]
    /\ UNCHANGED << stop_flag, clear_ret, last_call, cleared_len, exchanges,
                    last_mirror >>
    /\ UNCHANGED << main_pc, exit_code, probe_results >>
    /\ UNCHANGED probeVars

\* app.py:84-87  self.chat_history.append(AIMessage(content=response)); return
GenAppendAI(t) ==
    /\ frame[t].pc = "gen_ai"
    /\ chat_history' = Append(chat_history, AIMessage(frame[t].response))
    /\ frame' = [frame EXCEPT ![t] =
         [@ EXCEPT !.apos = Len(chat_history) + 1, !.pc = "append_pair"]]
    /\ UNCHANGED << stop_flag, clear_ret, last_call, cleared_len, exchanges,
                    last_mirror >>
    /\ UNCHANGED << main_pc, exit_code, probe_results >>
    /\ UNCHANGED probeVars

\* app.py:102-107  ai_response is appended to the mirror and chat returns
ChatAppend(t) ==
    /\ frame[t].pc = "append_pair"
    /\ LET h == AppendPair(frame[t].history, frame[t].message, frame[t].response)
       IN  frame' = [frame EXCEPT ![t] =
             [@ EXCEPT !.history = h, !.ret = ChatResult(h), !.pc = "done"]]
    /\ exchanges' = IF frame[t].cleared_at = "none" /\ frame[t].outcome # "stopped"
                      THEN Append(exchanges, <<frame[t].message, frame[t].response,
                                               frame[t].hpos, frame[t].apos>>)
                      ELSE exchanges
    /\ UNCHANGED << chat_history, stop_flag, clear_ret, last_call, cleared_len,
                    last_mirror >>
    /\ UNCHANGED << main_pc, exit_code, probe_results >>
    /\ UNCHANGED probeVars

\* the caller receives what chat returned; the one caller of traced calls
\* keeps the mirror for its next call
ChatReturn(t) ==
    /\ frame[t].pc = "done"
    /\ last_mirror' = IF frame[t].traced THEN frame[t].ret[2] ELSE last_mirror
    /\ frame' = [frame EXCEPT ![t] = IdleFrame]
    /\ UNCHANGED << chat_history, stop_flag, clear_ret, last_call, cleared_len,
                    exchanges >>
    /\ UNCHANGED << main_pc, exit_code, probe_results >>
    /\ UNCHANGED probeVars

\* positions of a chat call between its entry and its return statement
InFlightPcs ==
    {"gen_clear", "gen_check", "gen_human", "gen_invoke", "gen_ai", "append_pair"}

\* the calls that have cleared the flag and not yet tested it see this stop
MarkStop(f) ==
    [u \in Threads |->
        IF f[u].pc = "gen_check" THEN [f[u] EXCEPT !.stop_seen = TRUE] ELSE f[u]]

\* the calls in flight record where this clear met them: "mid" between the
\* append of the Human Turn and the append of the Assistant Turn
MarkClear(f) ==
    [u \in Threads |->
        IF f[u].pc \in InFlightPcs
          THEN [f[u] EXCEPT !.cleared_at =
                  IF f[u].pc \in {"gen_invoke", "gen_ai"} THEN "mid" ELSE "other"]
          ELSE f[u]]

\* app.py:109-112
stop_generation ==
    /\ Serving
    /\ stop_flag' = TRUE
    /\ last_call' = "stop"
    /\ frame' = MarkStop(frame)
    /\ UNCHANGED << chat_history, clear_ret, cleared_len, exchanges, last_mirror >>
    /\ UNCHANGED << main_pc, exit_code, probe_results >>
    /\ UNCHANGED probeVars

\* variant of clear_chat: the Conversation is emptied instead of re-seeded
clear_chat_empty ==
    /\ Serving
    /\ chat_history' = <<>>
    /\ clear_ret' = << <<>>, <<>> >>
    /\ cleared_len' = Len(chat_history)
    /\ exchanges' = <<>>
    /\ last_mirror' = <<>>
    /\ last_call' = "clear"
    /\ frame' = MarkClear(frame)
    /\ UNCHANGED stop_flag
    /\ UNCHANGED << main_pc, exit_code, probe_results >>
    /\ UNCHANGED probeVars

\* app.py:114-120  the Conversation is replaced by a fresh seed; return [], []
clear_chat ==
    /\ Serving
    /\ chat_history' = <<AIMessage(GREETING)>>
    /\ clear_ret' = << <<>>, <<>> >>
    /\ cleared_len' = Len(chat_history)
    /\ exchanges' = <<>>
    /\ last_mirror' = <<>>
    /\ last_call' = "clear"
    /\ frame' = MarkClear(frame)
    /\ UNCHANGED stop_flag
    /\ UNCHANGED << main_pc, exit_code, probe_results >>
    /\ UNCHANGED probeVars

(***************************************************************************)
(* The program with its handlers run one at a time: a handler is invoked   *)
(* only when no chat call is in flight (spec section 5, "each chat         *)
(* invocation runs to completion before returning").                       *)
(***************************************************************************)
Init ==
    /\ main_pc = "l40"
    /\ exit_code = -1
    /\ p_pc = "idle"
    /\ retries = 0
    /\ delay = 0
    /\ i = 0
    /\ p_ret = FALSE
    /\ checks = <<>>
    /\ slept = 0
    /\ probe_results = <<>>
    /\ chat_history = <<>>
    /\ stop_flag = FALSE
    /\ clear_ret = <<>>
    /\ last_call = "none"
    /\ cleared_len = 0
    /\ exchanges = <<>>
    /\ last_mirror = <<>>
    /\ frame = [t \in Threads |-> IdleFrame]

SeqChatCall(t) == Quiescent /\ ChatCall(t)
SeqStop == Quiescent /\ stop_generation
SeqClear == Quiescent /\ clear_chat

Next ==
    \/ StartupProbe1
    \/ StartupCheck1
    \/ StartupProbe2
    \/ StartupAfter2
    \/ ProbeLoop
    \/ ProbeGet
    \/ ProbeSleep
    \/ CreateDemo
    \/ Launch
    \/ \E t \in Threads : SeqChatCall(t)
    \/ \E t \in Threads : GenClear(t)
    \/ \E t \in Threads : GenCheck(t)
    \/ \E t \in Threads : GenAppendHuman(t)
    \/ \E t \in Threads : GenInvoke(t)
    \/ \E t \in Threads : GenAppendAI(t)
    \/ \E t \in Threads : ChatAppend(t)
    \/ \E t \in Threads : ChatReturn(t)
    \/ SeqStop
    \/ SeqClear

Spec == Init /\ [][Next]_vars

(***************************************************************************)
(* test_ollama_connection on its own, for every maxAttempts and delay      *)
(***************************************************************************)
InitProbe ==
    /\ main_pc = "probe"
    /\ exit_code = -1
    /\ p_pc = "loop"
    /\ retries \in 0..MaxRetries
    /\ delay \in 0..MaxDelay
    /\ i = 0
    /\ p_ret = FALSE
    /\ checks = <<>>
    /\ slept = 0
    /\ probe_results = <<>>
    /\ chat_history = <<>>
    /\ stop_flag = FALSE
    /\ clear_ret = <<>>
    /\ last_call = "none"
    /\ cleared_len = 0
    /\ exchanges = <<>>
    /\ last_mirror = <<>>
    /\ frame = [t \in Threads |-> IdleFrame]

NextProbe == ProbeLoop \/ ProbeGet \/ ProbeSleep

SpecProbe == InitProbe /\ [][NextProbe]_vars

\* the loop is a sequential for statement: each step is eventually taken
SpecProbeFair == SpecProbe /\ WF_vars(NextProbe)

(***************************************************************************)
(* The served program with its handlers run by concurrent worker threads:  *)
(* chat calls overlap, and stop_generation and clear_chat run between any  *)
(* two statements of a call in flight (spec section 5: no locking).        *)
(***************************************************************************)
\* the state in which demo.launch() starts to serve: both probes succeeded
\* and create_demo() has constructed the ChatBot
InitServing ==
    /\ main_pc = "serving"
    /\ exit_code = -1
    /\ p_pc = "idle"
    /\ retries = 0
    /\ delay = 0
    /\ i = 0
    /\ p_ret = FALSE
    /\ checks = <<>>
    /\ slept = 0
    /\ probe_results = <<TRUE, TRUE>>
    /\ chat_history = Seed
    /\ stop_flag = FALSE
    /\ clear_ret = <<>>
    /\ last_call = "none"
    /\ cleared_len = 0
    /\ exchanges = <<>>
    /\ last_mirror = <<>>
    /\ frame = [t \in Threads |-> IdleFrame]

\* every browser session submits with the first model and a fresh mirror
ConcChatCall(t) ==
    ChatCallWith(t, {"", "m1"}, {"deepseek-r1:1.5b"}, {<<>>}, FALSE)

\* the statements of a chat call of thread t after its entry
ChatStep(t) ==
    \/ GenClear(t)
    \/ GenCheck(t)
    \/ GenAppendHuman(t)
    \/ GenInvoke(t)
    \/ GenAppendAI(t)
    \/ ChatAppend(t)
    \/ ChatReturn(t)

NextConc ==
    \/ \E t \in Threads : ConcChatCall(t)
    \/ \E t \in Threads : ChatStep(t)
    \/ stop_generation
    \/ clear_chat

SpecConc == InitServing /\ [][NextConc]_vars

\* a worker thread that has entered chat runs it statement by statement to
\* its return, the backend invocation eventually returning or raising
SpecConcFair == SpecConc /\ \A t \in Threads : WF_vars(ChatStep(t))

(***************************************************************************)
(* The served program with one caller that runs the handlers one at a time *)
(* and passes to each chat the mirror the previous chat or clear returned. *)
(***************************************************************************)
CallerChatCall(t) ==
    Quiescent /\ ChatCallWith(t, Messages, Models, {last_mirror}, TRUE)

NextCaller ==
    \/ \E t \in Threads : CallerChatCall(t)
    \/ \E t \in Threads : ChatStep(t)
    \/ SeqStop
    \/ SeqClear

SpecCaller == InitServing /\ [][NextCaller]_vars

TypeOK ==
    /\ main_pc \in {"l40", "l44", "l178", "l179", "serving", "exited", "probe"}
    /\ p_pc \in {"idle", "loop", "get", "sleep", "done"}
    /\ stop_flag \in BOOLEAN
    /\ \A t \in Threads : frame[t].pc \in
         {"idle", "gen_clear", "gen_check", "gen_human", "gen_invoke", "gen_ai",
          "append_pair", "done"}

(***************************************************************************)
(* Properties                                                              *)
(***************************************************************************)
\* a chat call of thread t has returned from generate_ai_response
Generated(t) == frame[t].pc \in {"append_pair", "done"}

\* texts the backend can answer with
BackendTexts == {out.text : out \in {o \in BackendOutcomes : ~o.raised /\ o.text # ""}}

\* C1: after N non-overlapping chat calls with non-empty messages on a fresh
\* ChatBot, with no clear, the Conversation has exactly 1 + 2N Turns: the seed
\* greeting, then for each call in order the Human Turn of its message and the
\* Assistant Turn of the reply returned for it.
C1_SeedPlusPairsInCallOrder ==
    (Serving /\ Quiescent /\ cleared_len = 0) =>
        /\ Len(chat_history) = 1 + 2 * Len(exchanges)
        /\ chat_history[1] = AIMessage(GREETING)
        /\ \A k \in 1..Len(exchanges) :
             /\ chat_history[2 * k] = HumanMessage(exchanges[k][1])
             /\ chat_history[2 * k + 1] = AIMessage(exchanges[k][2])

\* two calls with different messages and different replies have completed
C1_Witness ==
    /\ Serving /\ Quiescent /\ cleared_len = 0
    /\ Len(exchanges) = 2
    /\ exchanges[1][1] # exchanges[2][1]
    /\ exchanges[1][2] # exchanges[2][2]
    /\ Len(chat_history) = 5

\* C2: chat with an empty message changes nothing: the returned mirror is the
\* input mirror, the Conversation and the cancellation flag are as they were
\* when chat was called, no engine was built and the backend was not invoked.
C2_EmptyMessageIsNoOp ==
    \A t \in Threads :
        (frame[t].pc = "done" /\ frame[t].message = "") =>
            /\ Len(frame[t].ret) = 3
            /\ frame[t].ret[1] = ""
            /\ frame[t].ret[2] = frame[t].hist0
            /\ frame[t].ret[3] = frame[t].hist0
            /\ chat_history = frame[t].h0
            /\ stop_flag = frame[t].flag0
            /\ frame[t].llm_engine = NoEngine
            /\ frame[t].invoked = 0

\* an empty message was submitted with a non-empty mirror, the flag set and
\* an exchange recorded
C2_Witness ==
    \E t \in Threads :
        /\ frame[t].pc = "done" /\ frame[t].message = ""
        /\ frame[t].hist0 # <<>>
        /\ stop_flag
        /\ Len(chat_history) = 3

C4_StopThenChatStillReplies ==
    \A t \in Threads :
        (frame[t].pc = "done" /\ frame[t].message # "" /\ frame[t].prev = "stop") =>
            /\ frame[t].invoked = 1
            /\ frame[t].response # STOPPED_SENTINEL
            /\ frame[t].response \in
                 BackendTexts \cup {NO_ANSWER_SENTINEL, ERROR_SENTINEL}
            /\ frame[t].ret[2][Len(frame[t].ret[2])][2] = frame[t].response
            /\ ~stop_flag

\* a chat entered with the flag set by the preceding stop got the backend's text
C4_Witness ==
    \E t \in Threads :
        /\ frame[t].pc = "done" /\ frame[t].message # ""
        /\ frame[t].prev = "stop" /\ frame[t].flag0
        /\ frame[t].response \in BackendTexts

\* C5: when the backend invocation raises, generate_ai_response returns the
\* error text and the Conversation has grown by exactly the Human Turn of the
\* input followed by the Assistant Turn of that text.
C5_BackendFailureBecomesSentinel ==
    \A t \in Threads :
        (Generated(t) /\ frame[t].outcome = "raised") =>
            /\ frame[t].response = ERROR_SENTINEL
            /\ chat_history = frame[t].h0 \o
                 <<HumanMessage(frame[t].message), AIMessage(ERROR_SENTINEL)>>

\* a chat whose backend invocation raised has returned, on a Conversation
\* that already held an exchange
C5_Witness ==
    \E t \in Threads :
        /\ frame[t].pc = "done" /\ frame[t].outcome = "raised"
        /\ Len(frame[t].h0) = 3

\* C6: when the backend returns an empty string generate_ai_response returns
\* the no-answer text; it never returns an empty string and no Assistant Turn
\* of the Conversation has empty content.
C6_EmptyReplyBecomesSentinel ==
    /\ \A t \in Threads :
         /\ (Generated(t) /\ frame[t].outcome = "empty") =>
                frame[t].response = NO_ANSWER_SENTINEL
         /\ (Generated(t) /\ frame[t].message # "") => frame[t].response # ""
    /\ \A k \in 1..Len(chat_history) :
         chat_history[k].role = "ai" => chat_history[k].content # ""

\* a chat whose backend returned an empty string has returned
C6_Witness ==
    \E t \in Threads :
        /\ frame[t].pc = "done" /\ frame[t].outcome = "empty"
        /\ chat_history[Len(chat_history)] = AIMessage(NO_ANSWER_SENTINEL)

\* C7: the request sent to the backend for input m, started when the
\* Conversation is H, is the system Turn, then the Turns of H, then exactly one
\* Human Turn holding m: its length is |H| + 2.
C7_RequestIsSystemPriorHuman ==
    \A t \in Threads :
        (frame[t].invoked = 1) =>
            /\ frame[t].request =
                 <<SystemMessage(SYSTEM_TEMPLATE)>> \o frame[t].h0 \o
                 <<HumanMessage(frame[t].message)>>
            /\ Len(frame[t].request) = Len(frame[t].h0) + 2

C9_ServedOnlyIfEveryProbeSucceeded ==
    (main_pc \in {"l179", "serving"}) =>
        \A k \in 1..Len(probe_results) : probe_results[k]

\* at most maxAttempts checks are made, only the last one made can have
\* succeeded, and the result is true exactly when one succeeded, false
\* exactly when all maxAttempts checks failed
ProbeContract ==
    /\ Len(checks) <= retries
    /\ \A k \in 1..(Len(checks) - 1) : ~checks[k]
    /\ (p_pc = "done") =>
         /\ p_ret <=> (\E k \in 1..Len(checks) : checks[k])
         /\ ~p_ret <=> (Len(checks) = retries /\ \A k \in 1..Len(checks) : ~checks[k])

\* C10: the probe always terminates, after at most maxAttempts sequential
\* checks; it returns true exactly when a check succeeded and makes no check
\* after the first success; it returns false exactly when all maxAttempts
\* checks failed, also for maxAttempts = 0.
C10_ProbeTerminatesWithContract ==
    /\ []ProbeContract
    /\ <>(p_pc = "done")

\* the probe returned true at its third check, with attempts to spare
C10_Witness ==
    /\ p_pc = "done" /\ p_ret
    /\ Len(checks) = 3
    /\ retries > 3
    /\ slept = 2 * delay /\ delay > 0

\* every chat call has reached its return statement or runs no call
AllReturned == \A u \in Threads : frame[u].pc \in {"idle", "done"}

\* the exchange of thread t has passed the test of the flag and has no reply yet
AwaitingReply(t) == frame[t].pc \in {"gen_human", "gen_invoke"}

\* s is a prefix of r
IsPrefix(s, r) ==
    /\ Len(s) <= Len(r)
    /\ \A k \in 1..Len(s) : s[k] = r[k]

\* C11 (as claimed): in every execution, also with stop_generation running
\* between the statements of a chat in flight, generate_ai_response never
\* returns the "stopped" text and always appends the Human Turn and contacts
\* the backend.
C11_NeverTakesCancellationBranch ==
    \A t \in Threads :
        (Generated(t) /\ frame[t].message # "") =>
            /\ frame[t].response # STOPPED_SENTINEL
            /\ frame[t].hpos > 0
            /\ frame[t].invoked = 1

\* C11 (amended): generate_ai_response takes the cancellation branch only
\* when stop_generation ran between its clearing and its test of the flag; it
\* then returns the "stopped" text without appending a Turn or contacting the
\* backend.  Otherwise it appends the Human Turn, contacts the backend once
\* and does not return that text.
C11_CancelledOnlyByStopBetweenClearAndTest ==
    \A t \in Threads :
        (Generated(t) /\ frame[t].message # "") =>
            IF frame[t].outcome = "stopped"
              THEN /\ frame[t].stop_seen
                   /\ frame[t].response = STOPPED_SENTINEL
                   /\ frame[t].hpos = 0
                   /\ frame[t].invoked = 0
              ELSE /\ frame[t].response # STOPPED_SENTINEL
                   /\ frame[t].hpos > 0
                   /\ frame[t].invoked = 1

\* a chat was cancelled by a stop that ran between its clear and its test
C11_Witness ==
    \E t \in Threads :
        /\ frame[t].pc = "done"
        /\ frame[t].outcome = "stopped"
        /\ frame[t].stop_seen
        /\ frame[t].ret[2] = << <<frame[t].message, STOPPED_SENTINEL>> >>

\* C12 (as claimed): with concurrent chat calls and no clear and no stop, in
\* every quiescent state the roles after the seed alternate Human, Assistant
\* and the Human Turn of each exchange is immediately followed by the
\* Assistant Turn holding the reply to the same input.
C12_PairsAdjacentUnderConcurrency ==
    (AllReturned /\ last_call = "none") =>
        /\ \A k \in 2..Len(chat_history) :
             chat_history[k].role = IF k % 2 = 0 THEN "human" ELSE "ai"
        /\ \A k \in 1..Len(exchanges) :
             /\ chat_history[exchanges[k][3]] = HumanMessage(exchanges[k][1])
             /\ exchanges[k][4] = exchanges[k][3] + 1
             /\ chat_history[exchanges[k][4]] = AIMessage(exchanges[k][2])

\* C12 (amended): with concurrent chat calls and no clear and no stop, each
\* exchange appends exactly one Human Turn and later exactly one Assistant
\* Turn: in every quiescent state the Conversation has 1 + 2N Turns for its N
\* exchanges, and the Human Turn of each exchange precedes, not necessarily
\* directly, the Assistant Turn holding the reply to the same input.
C12_PairsOrderedUnderConcurrency ==
    (AllReturned /\ last_call = "none") =>
        /\ Len(chat_history) = 1 + 2 * Len(exchanges)
        /\ chat_history[1] = AIMessage(GREETING)
        /\ \A k \in 1..Len(exchanges) :
             /\ 1 < exchanges[k][3]
             /\ exchanges[k][3] < exchanges[k][4]
             /\ exchanges[k][4] <= Len(chat_history)
             /\ chat_history[exchanges[k][3]] = HumanMessage(exchanges[k][1])
             /\ chat_history[exchanges[k][4]] = AIMessage(exchanges[k][2])
        /\ \A j, k \in 1..Len(exchanges) :
             j # k => /\ exchanges[j][3] # exchanges[k][3]
                      /\ exchanges[j][4] # exchanges[k][4]

\* two overlapping exchanges have completed as Human, Human, Assistant,
\* Assistant
C12_Witness ==
    /\ AllReturned /\ last_call = "none"
    /\ Len(exchanges) = 2
    /\ Len(chat_history) = 5
    /\ chat_history[2].role = "human" /\ chat_history[3].role = "human"
    /\ exchanges[1][2] # exchanges[2][2]

\* C13: when clear_chat ran while a chat was in flight between the append of
\* its Human Turn and the append of its Assistant Turn, then once that chat
\* has returned the Conversation is exactly the greeting plus the complete
\* (Human, Assistant) pairs of the exchanges started after the clear.
C13_NoTurnFromBeforeClear ==
    \A t \in Threads :
        (frame[t].pc = "done" /\ frame[t].cleared_at = "mid" /\ AllReturned) =>
            /\ Len(chat_history) = 1 + 2 * Len(exchanges)
            /\ chat_history[1] = AIMessage(GREETING)
            /\ \A k \in 1..Len(exchanges) :
                 /\ chat_history[exchanges[k][3]] = HumanMessage(exchanges[k][1])
                 /\ chat_history[exchanges[k][4]] = AIMessage(exchanges[k][2])

\* the mirror m pairs the Human and Assistant Turns of the Conversation
MirrorMatches(m) ==
    /\ 2 * Len(m) = Len(chat_history) - 1
    /\ \A k \in 1..Len(m) :
         m[k] = <<chat_history[2 * k].content, chat_history[2 * k + 1].content>>

\* C14: when one caller runs chat, stop and clear one at a time and passes to
\* each chat the mirror returned by the previous chat or clear, then after
\* every call the mirror has (|Conversation| - 1) / 2 pairs and its i-th pair
\* is (content of the i-th Human Turn, content of the i-th Assistant Turn).
C14_MirrorTracksConversation ==
    /\ Quiescent => MirrorMatches(last_mirror)
    /\ \A t \in Threads :
         (frame[t].pc = "done") =>
             /\ MirrorMatches(frame[t].ret[2])
             /\ frame[t].ret[3] = frame[t].ret[2]

\* after a clear and a stop, a second exchange has returned its mirror of
\* two pairs
C14_Witness ==
    \E t \in Threads :
        /\ frame[t].pc = "done" /\ frame[t].message # ""
        /\ cleared_len > 1
        /\ stop_flag = FALSE /\ last_call = "chat"
        /\ Len(frame[t].ret[2]) = 2
        /\ frame[t].ret[2][1] # frame[t].ret[2][2]

\* C15 (as claimed): every chat call with a non-empty message invokes the
\* backend exactly once.
C15_InvokedExactlyOnce ==
    \A t \in Threads :
        (frame[t].pc = "done" /\ frame[t].message # "") => frame[t].invoked = 1

\* C15 (amended): a chat call with a non-empty message invokes the backend at
\* most once: exactly once, whether the invocation answers, answers with
\* nothing or raises, unless the call took the cancellation branch, and then
\* not at all.  A failed generation is never retried.
C15_InvokedOnceUnlessCancelled ==
    \A t \in Threads :
        /\ frame[t].invoked <= 1
        /\ frame[t].outcome \in {"text", "empty", "raised"} => frame[t].invoked = 1
        /\ (frame[t].pc = "done" /\ frame[t].message # "") =>
             frame[t].invoked = IF frame[t].outcome = "stopped" THEN 0 ELSE 1

\* a chat whose one backend invocation raised has returned
C15_Witness ==
    \E t \in Threads :
        /\ frame[t].pc = "done"
        /\ frame[t].outcome = "raised"
        /\ frame[t].invoked = 1
        /\ frame[t].response = ERROR_SENTINEL

\* C16: between two clear_chat calls the Conversation is append-only: every
\* step that is not a clear_chat leaves the Turns present unchanged and in
\* place, the earlier Conversation being a prefix of the later one.
C16_AppendOnlyBetweenClears ==
    [][clear_chat \/ IsPrefix(chat_history, chat_history')]_vars

\* after a clear the Conversation has grown again while a call is in flight
C16_Witness ==
    /\ cleared_len >= 3
    /\ Len(chat_history) >= 3
    /\ \E t \in Threads : frame[t].pc = "gen_ai"

\* C17: in every reachable state, under any interleaving of chat, stop and
\* clear, the Conversation is non-empty and its first Turn is the greeting.
C17_FirstTurnIsGreeting ==
    /\ Len(chat_history) >= 1
    /\ chat_history[1] = AIMessage(GREETING)

\* a clear has run under a chat in flight, whose Assistant Turn now follows
\* the greeting directly
C17_Witness ==
    /\ cleared_len >= 2
    /\ Len(chat_history) = 2
    /\ chat_history[2].role = "ai"
    /\ \E t \in Threads : frame[t].cleared_at = "mid" /\ frame[t].pc = "done"

\* C18: every exchange that has left Idle for AwaitingReply eventually is
\* Completed (the backend answered) or Failed (it answered with nothing or
\* raised) with chat returned to its caller, and ends in no other state.
C18_ExchangeEventuallyReturns ==
    \A t \in Threads :
        AwaitingReply(t) ~>
            (frame[t].pc = "done" /\ frame[t].outcome \in {"text", "empty", "raised"})

\* a failed exchange has returned to its caller
C18_Witness ==
    \E t \in Threads :
        /\ frame[t].pc = "done"
        /\ frame[t].outcome \in {"empty", "raised"}
        /\ frame[t].hpos > 0 /\ frame[t].apos > 0

====
